---- MODULE Spec2Model ----
(***************************************************************************)
(* Image generation and layout planning of the article generator           *)
(* (services/imageService.ts, kept here as src/unnamed/part_003).          *)
(*                                                                         *)
(*  - generateAndVerifyImage: the generate / verify / refine retry loop.   *)
(*    Its locals are one record (a frame); every await of the function is  *)
(*    a position of the frame, and every answer of the service (a value,   *)
(*    no image, an error) is an outcome of that position.                  *)
(*  - planImagePlacements: the layout proposal, the header suitability     *)
(*    gate, the replacement header (generateHeaderImage, which runs        *)
(*    generateAndVerifyImage with the default budget), the validation of   *)
(*    the proposal, the cluster detector and getProgrammaticPlacement.     *)
(*                                                                         *)
(* The answers of the generative service follow the response schemas the   *)
(* requests carry (booleans, a string, an array of {string, integer});     *)
(* anything else is the "error" outcome (a rejected call or a JSON.parse   *)
(* that throws).                                                           *)
(***************************************************************************)
EXTENDS Integers, Sequences, FiniteSets, TLC

VARIABLES
    gav,                      \* frame of the running generateAndVerifyImage call
    pc,                       \* position of planImagePlacements
    images,                   \* parameter images (filenames, in batch order)
    blockCount,               \* contentBlocks.length
    header,                   \* initialStrategy.headerImageFilename
    placements,               \* initialStrategy.placements
    finalHeaderImageFilename, \* local of planImagePlacements
    newImages,                \* local newImages (filenames)
    result,                   \* the value planImagePlacements resolves to, and the
                              \* return statement that produced it (path)
    answers,                  \* what the service answered to each request of the plan
    calls,                    \* requests planImagePlacements has issued, per kind
    tasks,                    \* generateArticleImages: the frames of the calls of
                              \* generateAndVerifyImage it started, by prompt position
    article,                  \* generateArticleImages: its position, what each of
                              \* its closures returned, and how its promise settled
    pure,                     \* a call of one of the two pure functions on its own:
                              \* its arguments and its return value
    workflow                  \* runGenerationWorkflow: its position, its local
                              \* imagesForArticle and what it assembled

vars == <<gav, pc, images, blockCount, header, placements,
          finalHeaderImageFilename, newImages, result, answers, calls,
          tasks, article, pure, workflow>>

\* what generateAndVerifyImage and planImagePlacements have no access to
restVars == <<tasks, article, pure, workflow>>

planVars == <<pc, images, blockCount, header, placements,
              finalHeaderImageFilename, newImages, result, answers, calls>>

----------------------------------------------------------------------------
(* Bounds of the model *)

MaxAttemptsBound == 3    \* maxAttempts ranges over 1..MaxAttemptsBound
MaxPrompt == 1           \* prompts are 0..MaxPrompt; 0 is the original prompt
MaxImages == 2           \* largest batch
MaxBlocks == 5           \* largest contentBlocks.length
MaxPlacements == 2       \* longest placements array of a proposal

(* Program constants *)

DefaultMaxAttempts == 3  \* maxAttempts: number = 3
ClusterMinPlacements == 2
ClusterMinBlocks == 5
ClusterFirstPart == 4    \* contentBlocks.length * 0.25
ClusterShareDivisor == 2 \* indices.length / 2

GenName == "generated-header-image.png"
Ghost == "ghost.png"     \* stands for every filename that is not in the batch
NoOverride == ""         \* headerImageFilenameOverride not passed

Prompts == 0..MaxPrompt
Errors == {"service error"}

----------------------------------------------------------------------------
(* generateAndVerifyImage *)

NoRequest == [op |-> "none", prompt |-> 0, original |-> 0, reason |-> <<>>, image |-> 0]

\* ai.models.generateImages({prompt: currentPrompt, ...})
SynthRequest(p) ==
    [op |-> "generateImages", prompt |-> p, original |-> 0, reason |-> <<>>, image |-> 0]

\* ai.models.generateContent with the verification prompt and the image
VerifyRequest(orig, img) ==
    [op |-> "verify", prompt |-> orig, original |-> orig, reason |-> <<>>, image |-> img]

\* getImprovedPrompt(ai, originalPrompt, lastAttemptedPrompt, failureReason)
getImprovedPrompt(orig, last, why) ==
    [op |-> "getImprovedPrompt", prompt |-> last, original |-> orig, reason |-> why, image |-> 0]

NoOutputReason == <<"The model failed to generate an image">>

ApiErrorReason(e) == <<"The API returned an error", e>>

FullReasonBothAxes(hasGarbledText, isRelevant) ==
    <<"it contained garbled, nonsensical text", "it was not visually relevant">>

\* failureReasons, before the join(' and ')
FullReason(hasGarbledText, isRelevant) ==
    (IF hasGarbledText THEN <<"it contained garbled, nonsensical text">> ELSE <<>>)
    \o (IF ~isRelevant THEN <<"it was not visually relevant">> ELSE <<>>)

VerificationPassesLax(hasGarbledText, isRelevant) == isRelevant

\* if (!hasGarbledText && isRelevant)
VerificationPasses(hasGarbledText, isRelevant) == ~hasGarbledText /\ isRelevant

\* if (attempts >= maxAttempts)
OutOfAttempts(g) == g.attempts >= g.maxAttempts

\* verificationResult of the current attempt, and the image it judged
NoVerdict == [image |-> 0, hasGarbledText |-> FALSE, isRelevant |-> FALSE]

GavIdle ==
    [pc |-> "idle", maxAttempts |-> 0, originalPrompt |-> 0, currentPrompt |-> 0,
     attempts |-> 0, image |-> 0, result |-> 0, error |-> "", req |-> NoRequest,
     synthCalls |-> 0, verifyCalls |-> 0, refineCalls |-> 0,
     verdict |-> NoVerdict, okVerdicts |-> 0, badVerdicts |-> 0]

\* throw: the promise of generateAndVerifyImage rejects with e
Throw(g, e) == [g EXCEPT !.pc = "thrown", !.error = e, !.req = NoRequest, !.image = 0]

\* while (attempts < maxAttempts) { attempts++; ... await generateImages(...) }
\* and the throw after the loop
LoopHead(g) ==
    IF g.attempts < g.maxAttempts
    THEN [g EXCEPT !.pc = "synth", !.attempts = g.attempts + 1, !.image = 0,
                   !.verdict = NoVerdict,
                   !.req = SynthRequest(g.currentPrompt),
                   !.synthCalls = g.synthCalls + 1]
    ELSE Throw(g, "Failed to generate a valid image")

\* the call, up to its first await
GavStart(orig, max) ==
    LoopHead([GavIdle EXCEPT !.maxAttempts = max, !.originalPrompt = orig,
                             !.currentPrompt = orig])

\* currentPrompt = await getImprovedPrompt(...), issued in the try block
RefineInTry(g, why) ==
    [g EXCEPT !.pc = "refine",
              !.req = getImprovedPrompt(g.originalPrompt, g.currentPrompt, why),
              !.refineCalls = g.refineCalls + 1]

\* catch (error) { if (attempts >= maxAttempts) throw error; ... getImprovedPrompt }
Catch(g, e) ==
    IF OutOfAttempts(g)
    THEN Throw(g, e)
    ELSE [g EXCEPT !.pc = "refineCatch",
                   !.req = getImprovedPrompt(g.originalPrompt, g.currentPrompt,
                                             ApiErrorReason(e)),
                   !.refineCalls = g.refineCalls + 1]

\* generateImages answered with no image
NoImage(g) ==
    IF OutOfAttempts(g)
    THEN Catch(g, "Failed to generate image")   \* the throw is inside the try
    ELSE RefineInTry(g, NoOutputReason)

GotImageJudgedByCurrentPrompt(g) ==
    [g EXCEPT !.pc = "verify", !.image = g.attempts,
              !.req = VerifyRequest(g.currentPrompt, g.attempts),
              !.verifyCalls = g.verifyCalls + 1]

\* generateImages answered with an image: the verification request goes out
GotImage(g) ==
    [g EXCEPT !.pc = "verify", !.image = g.attempts,
              !.req = VerifyRequest(g.originalPrompt, g.attempts),
              !.verifyCalls = g.verifyCalls + 1]

\* the answers to generateImages
SynthOutcomes(g) ==
    {GotImage(g), NoImage(g)} \cup {Catch(g, e) : e \in Errors}

\* the answer {hasGarbledText, isRelevant} as the service gave it (history):
\* okVerdicts counts the answers "no garbled text and relevant", badVerdicts the others
Answered(g, hasGarbledText, isRelevant) ==
    [g EXCEPT !.verdict = [image |-> g.req.image, hasGarbledText |-> hasGarbledText,
                           isRelevant |-> isRelevant],
              !.okVerdicts = g.okVerdicts
                             + (IF hasGarbledText = FALSE /\ isRelevant = TRUE THEN 1 ELSE 0),
              !.badVerdicts = g.badVerdicts
                              + (IF hasGarbledText = FALSE /\ isRelevant = TRUE THEN 0 ELSE 1)]

\* the verification answered {hasGarbledText, isRelevant}
Verified(g, hasGarbledText, isRelevant) ==
    LET f == Answered(g, hasGarbledText, isRelevant)
    IN  IF VerificationPasses(hasGarbledText, isRelevant)
        THEN [f EXCEPT !.pc = "returned", !.result = f.image, !.req = NoRequest]
        ELSE IF OutOfAttempts(f)
             THEN LoopHead(f)        \* break
             ELSE RefineInTry(f, FullReason(hasGarbledText, isRelevant))

\* the answers to the verification request
VerifyOutcomes(g) ==
    {Verified(g, t, r) : t \in BOOLEAN, r \in BOOLEAN} \cup {Catch(g, e) : e \in Errors}

\* the answers to getImprovedPrompt issued in the try block
RefineOutcomes(g) ==
    {LoopHead([g EXCEPT !.currentPrompt = p]) : p \in Prompts}
    \cup {Catch(g, e) : e \in Errors}

\* the answers to getImprovedPrompt issued in the catch block
RefineCatchOutcomes(g) ==
    {LoopHead([g EXCEPT !.currentPrompt = p]) : p \in Prompts}
    \cup {Throw(g, e) : e \in Errors}

GavOutcomes(g) ==
    CASE g.pc = "synth" -> SynthOutcomes(g)
      [] g.pc = "verify" -> VerifyOutcomes(g)
      [] g.pc = "refine" -> RefineOutcomes(g)
      [] g.pc = "refineCatch" -> RefineCatchOutcomes(g)
      [] OTHER -> {}

----------------------------------------------------------------------------
(* A call of generateAndVerifyImage on its own *)

NoStrategy == [headerImageFilename |-> "", placements |-> <<>>]
NoResult == [strategy |-> NoStrategy, newImages |-> <<>>, path |-> "none"]
NoCalls == [layout |-> 0, suitability |-> 0, idea |-> 0]
NoAnswers == [layout |-> "none", suitability |-> "none", idea |-> "none",
              generation |-> "none"]

NoArticle == [pc |-> "none", results |-> <<>>, value |-> <<>>, error |-> ""]
NoPure == [fn |-> "none"]

\* the arguments of assembleArticleHtml: the images and the strategy
NoHtml == [images |-> <<>>, strategy |-> NoStrategy]
NoWorkflow == [pc |-> "none", userImages |-> <<>>, imagesForArticle |-> <<>>,
               planCalls |-> 0, html |-> NoHtml]

InitGen ==
    /\ tasks = <<>> /\ article = NoArticle /\ pure = NoPure
    /\ gav \in {GavStart(0, m) : m \in 1..MaxAttemptsBound}
    /\ pc = "none"
    /\ images = <<>>
    /\ blockCount = 0
    /\ header = ""
    /\ placements = <<>>
    /\ finalHeaderImageFilename = ""
    /\ newImages = <<>>
    /\ result = NoResult
    /\ answers = NoAnswers
    /\ calls = NoCalls
    /\ workflow = NoWorkflow

GenSynth ==
    /\ pc = "none" /\ gav.pc = "synth"
    /\ gav' \in SynthOutcomes(gav)
    /\ UNCHANGED planVars
    /\ UNCHANGED restVars

GenVerify ==
    /\ pc = "none" /\ gav.pc = "verify"
    /\ gav' \in VerifyOutcomes(gav)
    /\ UNCHANGED planVars
    /\ UNCHANGED restVars

GenRefine ==
    /\ pc = "none" /\ gav.pc = "refine"
    /\ gav' \in RefineOutcomes(gav)
    /\ UNCHANGED planVars
    /\ UNCHANGED restVars

GenRefineCatch ==
    /\ pc = "none" /\ gav.pc = "refineCatch"
    /\ gav' \in RefineCatchOutcomes(gav)
    /\ UNCHANGED planVars
    /\ UNCHANGED restVars

NextGen == GenSynth \/ GenVerify \/ GenRefine \/ GenRefineCatch

SpecGen == InitGen /\ [][NextGen]_vars

----------------------------------------------------------------------------
(* Claims about generateAndVerifyImage *)

GavReturned == gav.pc = "returned"
GavThrown == gav.pc = "thrown"

C1_State ==
    /\ GavReturned =>
          /\ gav.result # 0
          /\ gav.result = gav.attempts          \* synthesized by the attempt that returns
          /\ gav.verdict = [image |-> gav.result, hasGarbledText |-> FALSE,
                            isRelevant |-> TRUE]
          /\ gav.okVerdicts = 1                 \* no earlier attempt had passed
          /\ gav.req = NoRequest
    /\ ~GavReturned => gav.result = 0 /\ gav.okVerdicts = 0

C1_Step ==
    GavReturned =>
        /\ gav'.synthCalls = gav.synthCalls
        /\ gav'.verifyCalls = gav.verifyCalls
        /\ gav'.refineCalls = gav.refineCalls
        /\ gav'.result = gav.result

\* C1: generateAndVerifyImage returns an image only if the verification of the
\* attempt that synthesized it answered "no garbled text" and "relevant"; it is
\* the image of the first attempt whose verification passes, and no synthesis,
\* verification or refinement call is made after that attempt.
C1_ReturnsFirstVerifiedImage == [](C1_State) /\ [][C1_Step]_vars

\* attempt 2 or later returns, after a refinement
C1_Witness == GavReturned /\ gav.attempts >= 2 /\ gav.refineCalls >= 1

\* C2: when every attempt fails verification, the call ends in a failure after
\* at most maxAttempts synthesis calls and at most maxAttempts-1 refinement calls.
C2_RetryBudget ==
    (GavThrown /\ gav.badVerdicts = gav.attempts) =>
        /\ gav.synthCalls <= gav.maxAttempts
        /\ gav.refineCalls <= gav.maxAttempts - 1

\* C3: a call that ends in a failure has made exactly maxAttempts synthesis
\* attempts.
C3_FailureOnlyWhenExhausted ==
    GavThrown => gav.attempts = gav.maxAttempts /\ gav.synthCalls = gav.maxAttempts

----------------------------------------------------------------------------
(* getProgrammaticPlacement, the cluster detector, the validation *)

Range(s) == {s[i] : i \in 1..Len(s)}

Min(a, b) == IF a < b THEN a ELSE b
Max(a, b) == IF a > b THEN a ELSE b

MathRoundHalfDown(num, den) == (2 * num + den - 1) \div (2 * den)

\* Math.round(num / den) for num >= 0, den > 0: halves round up
MathRound(num, den) == (2 * num + den) \div (2 * den)

\* const maxIndex = totalBlocks > 0 ? totalBlocks - 1 : 0
MaxIndex(blocks) == IF blocks > 0 THEN blocks - 1 ELSE 0

Placement(f, i) == [imageFilename |-> f, afterParagraphIndex |-> i]

IdealIndexRoundedDown(position, bodyCount, blocks) ==
    (position * blocks) \div (bodyCount + 1) - 1

IdealIndexFromEnd(position, bodyCount, blocks) ==
    MathRound((bodyCount + 1 - position) * blocks, bodyCount + 1) - 1

\* const idealIndex = Math.round((index + 1) * step) - 1, step = totalBlocks / (M + 1);
\* position is index + 1
IdealIndex(position, bodyCount, blocks) ==
    MathRound(position * blocks, bodyCount + 1) - 1

\* headerImageFilenameOverride || images[0].filename
HeaderChoice(imgs, override) ==
    IF override # NoOverride THEN override ELSE imgs[1]

getProgrammaticPlacement(imgs, blocks, override) ==
    IF Len(imgs) = 0
    THEN [headerImageFilename |-> "", placements |-> <<>>]
    ELSE LET headerImageFilename == HeaderChoice(imgs, override)
             bodyImages == SelectSeq(imgs, LAMBDA f : f # headerImageFilename)
         IN  [headerImageFilename |-> headerImageFilename,
              placements |->
                  [i \in 1..Len(bodyImages) |->
                      Placement(bodyImages[i],
                                Max(0, Min(MaxIndex(blocks),
                                           IdealIndex(i, Len(bodyImages), blocks))))]]

\* Math.max(...indices)
MaxOf(indices) ==
    CHOOSE m \in Range(indices) : \A i \in Range(indices) : i <= m

isClusteredShareOnly(indices, blocks) ==
    IF Len(indices) < ClusterMinPlacements \/ blocks < ClusterMinBlocks
    THEN FALSE
    ELSE Cardinality(Range(indices)) <= Len(indices) \div ClusterShareDivisor

isClusteredStrictShare(indices, blocks) ==
    IF Len(indices) < ClusterMinPlacements \/ blocks < ClusterMinBlocks
    THEN FALSE
    ELSE \/ MaxOf(indices) < blocks \div ClusterFirstPart
         \/ Cardinality(Range(indices)) < Len(indices) \div ClusterShareDivisor

isClusteredAnyBlocks(indices, blocks) ==
    IF Len(indices) < ClusterMinPlacements
    THEN FALSE
    ELSE \/ MaxOf(indices) < blocks \div ClusterFirstPart
         \/ Cardinality(Range(indices)) <= Len(indices) \div ClusterShareDivisor

isClusteredWholeRange(indices, blocks) ==
    IF Len(indices) < ClusterMinPlacements \/ blocks < ClusterMinBlocks
    THEN FALSE
    ELSE \/ MaxOf(indices) < blocks
         \/ Cardinality(Range(indices)) <= Len(indices) \div ClusterShareDivisor

\* the closure isClustered, over indices and contentBlocks.length
isClustered(indices, blocks) ==
    IF Len(indices) < ClusterMinPlacements \/ blocks < ClusterMinBlocks
    THEN FALSE
    ELSE \/ MaxOf(indices) < blocks \div ClusterFirstPart
         \/ Cardinality(Range(indices)) <= Len(indices) \div ClusterShareDivisor

KeepsPlacementAny(p, final, allImages) == p.imageFilename \in Range(allImages)

\* the filter of initialStrategy.placements
KeepsPlacement(p, final, allImages) ==
    /\ p.imageFilename # final
    /\ p.imageFilename \in Range(allImages)

\* allImages.forEach(img => { if (... && !placedBodyImages.has(...)) bodyPlacements.push })
MissingPlacements(allImages, final, placed, blocks) ==
    LET missing == SelectSeq(allImages, LAMBDA f : f # final /\ f \notin placed)
    IN  [i \in 1..Len(missing) |-> Placement(missing[i], MaxIndex(blocks))]

ClampedIndexUpperOnly(i, blocks) == IF i > MaxIndex(blocks) THEN MaxIndex(blocks) ELSE i

\* if (p.afterParagraphIndex < 0 || p.afterParagraphIndex > maxIndex) p.afterParagraphIndex = maxIndex
ClampedIndex(i, blocks) ==
    IF i < 0 \/ i > MaxIndex(blocks) THEN MaxIndex(blocks) ELSE i

HeaderResolvedAlways(allImages, final) == TRUE

\* allImages.some(img => img.filename === finalHeaderImageFilename)
HeaderResolved(allImages, final) == final \in Range(allImages)

\* planImagePlacements from const allImages = [...images, ...newImages] to its return
PlanRest(imgs, blocks, final, news, proposed) ==
    LET allImages == imgs \o news
    IN  IF ~HeaderResolved(allImages, final)
        THEN [strategy |-> getProgrammaticPlacement(imgs, blocks, NoOverride),
              newImages |-> <<>>, path |-> "unresolved"]
        ELSE
        LET kept == SelectSeq(proposed, LAMBDA p : KeepsPlacement(p, final, allImages))
            placedBodyImages == {kept[i].imageFilename : i \in 1..Len(kept)}
            bodyPlacements ==
                kept \o MissingPlacements(allImages, final, placedBodyImages, blocks)
            indices == [i \in 1..Len(bodyPlacements) |->
                           bodyPlacements[i].afterParagraphIndex]
        IN  IF isClustered(indices, blocks)
            THEN [strategy |-> getProgrammaticPlacement(allImages, blocks, final),
                  newImages |-> news, path |-> "clustered"]
            ELSE [strategy |->
                      [headerImageFilename |-> final,
                       placements |->
                           [i \in 1..Len(bodyPlacements) |->
                               Placement(bodyPlacements[i].imageFilename,
                                         ClampedIndex(indices[i], blocks))]],
                  newImages |-> news, path |-> "accepted"]

LayoutFailureResultKeepsHeader(imgs, blocks) ==
    [strategy |-> getProgrammaticPlacement(imgs, blocks, imgs[Len(imgs)]),
     newImages |-> <<>>, path |-> "failure"]

\* catch (e) { const strategy = getProgrammaticPlacement(images, contentBlocks); ... }
LayoutFailureResult(imgs, blocks) ==
    [strategy |-> getProgrammaticPlacement(imgs, blocks, NoOverride),
     newImages |-> <<>>, path |-> "failure"]

SuitableUnlessAnsweredSo(answer) == answer = "suitable"

\* isHeaderImageSuitable: result.isSuitable, or true from its catch block
isHeaderImageSuitable(answer) == answer # "unsuitable"

----------------------------------------------------------------------------
(* The inputs of planImagePlacements *)

\* Filenames are only compared for equality, so a batch is, up to renaming, its
\* length and the place of the one filename the code itself produces.
FileNames == <<"a.png", "b.png", "c.png", "d.png", "e.png", "f.png",
              "g.png", "h.png", "i.png", "j.png", "k.png">>

Batches ==
    UNION {{s \in [1..n -> {FileNames[i] : i \in 1..n} \cup {GenName}] :
               /\ \A i \in 1..n : s[i] \in {FileNames[i], GenName}
               /\ Cardinality({i \in 1..n : s[i] = GenName}) <= 1}
           : n \in 1..MaxImages}

\* headerImageFilename and imageFilename of a proposal
ProposedNames(imgs) == Range(imgs) \cup {Ghost}

\* afterParagraphIndex of a proposal: below, in and above the range
ProposedIndices(blocks) == (-1)..(MaxIndex(blocks) + 1)

\* an entry that names no image of the batch is dropped whatever its index
ProposedPlacements(imgs, blocks) ==
    {Placement(f, i) : f \in Range(imgs), i \in ProposedIndices(blocks)}
    \cup {Placement(Ghost, 0)}

Proposals(imgs, blocks) ==
    UNION {[1..n -> ProposedPlacements(imgs, blocks)] : n \in 0..MaxPlacements}

----------------------------------------------------------------------------
(* A call of planImagePlacements *)

\* if (images.length === 0): the guard that comes before every request
NoImagesProvidedNever(imgs) == FALSE

NoImagesProvided(imgs) == Len(imgs) = 0

\* throw new Error("No images provided for placement planning.")
NoImagesError == [NoResult EXCEPT !.path = "No images provided for placement planning."]

\* The call up to its first await: either the guard has thrown, or the layout
\* request is out.
Init ==
    /\ tasks = <<>> /\ article = NoArticle /\ pure = NoPure
    /\ images \in Batches \cup {<<>>}
    /\ blockCount \in 0..MaxBlocks
    /\ pc = IF NoImagesProvided(images) THEN "thrown" ELSE "layout"
    /\ gav = GavIdle
    /\ header = ""
    /\ placements = <<>>
    /\ finalHeaderImageFilename = ""
    /\ newImages = <<>>
    /\ result = IF NoImagesProvided(images) THEN NoImagesError ELSE NoResult
    /\ answers = NoAnswers
    /\ calls = IF NoImagesProvided(images) THEN NoCalls ELSE [NoCalls EXCEPT !.layout = 1]
    /\ workflow = NoWorkflow

\* lines 503-560. initialStrategy.placements is part of the layout answer and is
\* first read here, so the model draws it here.
Finish(final, news) ==
    \E proposed \in Proposals(images, blockCount) :
        /\ placements' = proposed
        /\ finalHeaderImageFilename' = final
        /\ newImages' = news
        /\ result' = PlanRest(images, blockCount, final, news, proposed)
        /\ pc' = "done"

\* the layout request is rejected, or its text does not parse
LayoutFails ==
    /\ pc = "layout"
    /\ answers' = [answers EXCEPT !.layout = "error"]
    /\ result' = LayoutFailureResult(images, blockCount)
    /\ pc' = "done"
    /\ UNCHANGED <<gav, images, blockCount, header, placements,
                   finalHeaderImageFilename, newImages, calls>>
    /\ UNCHANGED restVars

\* the layout request answers a proposal whose header is not in the batch
LayoutRespondsUnknownHeader ==
    /\ pc = "layout"
    /\ \E h \in ProposedNames(images) \ Range(images) :
        /\ header' = h
        /\ Finish(h, <<>>)
    /\ answers' = [answers EXCEPT !.layout = "proposal"]
    /\ UNCHANGED <<gav, images, blockCount, calls>>
    /\ UNCHANGED restVars

\* the layout request answers a proposal whose header is in the batch:
\* isHeaderImageSuitable sends its request
LayoutResponds ==
    /\ pc = "layout"
    /\ \E h \in Range(images) :
        /\ header' = h
        /\ finalHeaderImageFilename' = h
    /\ answers' = [answers EXCEPT !.layout = "proposal"]
    /\ calls' = [calls EXCEPT !.suitability = calls.suitability + 1]
    /\ pc' = "suitability"
    /\ UNCHANGED <<gav, images, blockCount, placements, newImages, result>>
    /\ UNCHANGED restVars

\* the suitability request answers, or fails; the header is kept
SuitabilityKeepsHeader ==
    /\ pc = "suitability"
    /\ \E a \in {"suitable", "unsuitable", "error"} :
        /\ isHeaderImageSuitable(a)
        /\ answers' = [answers EXCEPT !.suitability = a]
    /\ Finish(finalHeaderImageFilename, newImages)
    /\ UNCHANGED <<gav, images, blockCount, header, calls>>
    /\ UNCHANGED restVars

\* the header is judged unsuitable: generateHeaderImage asks for an image prompt
SuitabilityRejectsHeader ==
    /\ pc = "suitability"
    /\ \E a \in {"suitable", "unsuitable", "error"} :
        /\ ~isHeaderImageSuitable(a)
        /\ answers' = [answers EXCEPT !.suitability = a]
    /\ calls' = [calls EXCEPT !.idea = calls.idea + 1]
    /\ pc' = "idea"
    /\ UNCHANGED <<gav, images, blockCount, header, placements,
                   finalHeaderImageFilename, newImages, result>>
    /\ UNCHANGED restVars

\* the image prompt arrives: generateAndVerifyImage(ai, imagePrompt, config)
IdeaResponds ==
    /\ pc = "idea"
    /\ answers' = [answers EXCEPT !.idea = "prompt"]
    /\ gav' = GavStart(0, DefaultMaxAttempts)
    /\ pc' = "generation"
    /\ UNCHANGED <<images, blockCount, header, placements,
                   finalHeaderImageFilename, newImages, result, calls>>
    /\ UNCHANGED restVars

GenErrorLosesHeader(final, news) == [final |-> GenName, newImages |-> news]

\* catch (genError) { console.error(...) }: the header the proposal chose and the
\* empty newImages stay as they are
GenErrorCaught(final, news) == [final |-> final, newImages |-> news]

\* the prompt request fails: catch (genError), proceed with the original header
IdeaFails ==
    /\ pc = "idea"
    /\ answers' = [answers EXCEPT !.idea = "error", !.generation = "failed"]
    /\ Finish(GenErrorCaught(finalHeaderImageFilename, newImages).final,
              GenErrorCaught(finalHeaderImageFilename, newImages).newImages)
    /\ UNCHANGED <<gav, images, blockCount, header, calls>>
    /\ UNCHANGED restVars

\* one answer to the request generateAndVerifyImage is waiting for; when the call
\* returns or throws, generateHeaderImage and then planImagePlacements are resumed
HeaderGeneration(outcomes) ==
    /\ pc = "generation"
    /\ \E g \in outcomes :
        CASE g.pc = "returned" ->
                /\ gav' = GavIdle
                /\ answers' = [answers EXCEPT !.generation = "generated"]
                /\ pc' = "generated"
          [] g.pc = "thrown" ->
                /\ gav' = GavIdle
                /\ answers' = [answers EXCEPT !.generation = "failed"]
                /\ pc' = "generationFailed"
          [] OTHER ->
                /\ gav' = g
                /\ UNCHANGED <<pc, answers>>
    /\ UNCHANGED <<images, blockCount, header, placements, finalHeaderImageFilename,
                   newImages, result, calls>>
    /\ UNCHANGED restVars

PushNewHeaderIntoBatch(imgs, news, f) ==
    [images |-> Append(imgs, f), newImages |-> Append(news, f)]

\* newImages.push(newHeader): the replacement joins the local array newImages;
\* the parameter images is read (lines 486, 503) and not written
PushNewHeader(imgs, news, f) == [images |-> imgs, newImages |-> Append(news, f)]

\* newImages.push(newHeader); finalHeaderImageFilename = newHeader.filename; ...
HeaderGenerated ==
    /\ pc = "generated"
    /\ images' = PushNewHeader(images, newImages, GenName).images
    /\ Finish(GenName, PushNewHeader(images, newImages, GenName).newImages)
    /\ UNCHANGED <<gav, blockCount, header, answers, calls>>
    /\ UNCHANGED restVars

\* catch (genError): proceed with the original header
HeaderGenerationFailed ==
    /\ pc = "generationFailed"
    /\ Finish(GenErrorCaught(finalHeaderImageFilename, newImages).final,
              GenErrorCaught(finalHeaderImageFilename, newImages).newImages)
    /\ UNCHANGED <<gav, images, blockCount, header, answers, calls>>
    /\ UNCHANGED restVars

PlanSynth == gav.pc = "synth" /\ HeaderGeneration(SynthOutcomes(gav))
PlanVerify == gav.pc = "verify" /\ HeaderGeneration(VerifyOutcomes(gav))
PlanRefine == gav.pc = "refine" /\ HeaderGeneration(RefineOutcomes(gav))
PlanRefineCatch == gav.pc = "refineCatch" /\ HeaderGeneration(RefineCatchOutcomes(gav))

Next ==
    \/ LayoutFails
    \/ LayoutRespondsUnknownHeader
    \/ LayoutResponds
    \/ SuitabilityKeepsHeader
    \/ SuitabilityRejectsHeader
    \/ IdeaResponds
    \/ IdeaFails
    \/ PlanSynth
    \/ PlanVerify
    \/ PlanRefine
    \/ PlanRefineCatch
    \/ HeaderGenerated
    \/ HeaderGenerationFailed

Spec == Init /\ [][Next]_vars

----------------------------------------------------------------------------
(* Claims about planImagePlacements *)

Done == pc = "done"

Strategy == result.strategy

\* input images plus returned newImages
ResultBatch == Range(images) \cup Range(result.newImages)

TimesPlaced(f) ==
    Cardinality({i \in 1..Len(Strategy.placements) :
                    Strategy.placements[i].imageFilename = f})

\* round(position * blocks / (bodyCount + 1)) - 1, clamped into [0, blocks - 1]:
\* the rounding stated by its defining inequalities
SpreadIndex(position, bodyCount, blocks) ==
    LET rounded == CHOOSE r \in 0..(blocks + 1) :
                       /\ 2 * (bodyCount + 1) * r <= 2 * position * blocks + (bodyCount + 1)
                       /\ 2 * position * blocks + (bodyCount + 1) < 2 * (bodyCount + 1) * (r + 1)
        last == IF blocks = 0 THEN 0 ELSE blocks - 1
    IN  IF rounded - 1 < 0 THEN 0 ELSE IF rounded - 1 > last THEN last ELSE rounded - 1

\* the programmatic placement with no header override, for distinct filenames:
\* the first image is the header, the others are spread in batch order
FirstImageHeaderSpread ==
    [headerImageFilename |-> Head(images),
     placements |-> [i \in 1..(Len(images) - 1) |->
                        [imageFilename |-> images[i + 1],
                         afterParagraphIndex |->
                             SpreadIndex(i, Len(images) - 1, blockCount)]]]

NoHeaderGeneration ==
    /\ calls.idea = 0
    /\ answers.idea = "none"
    /\ answers.generation = "none"
    /\ gav = GavIdle

\* C4: in every returned strategy, every image of the resulting batch other than
\* the header appears in exactly one placement.
C4_EveryBodyImagePlacedOnce ==
    Done => \A f \in ResultBatch \ {Strategy.headerImageFilename} : TimesPlaced(f) = 1

\* C5: every placement of every returned strategy has
\* 0 <= afterParagraphIndex <= max(blockCount - 1, 0).
C5_IndicesInRange ==
    Done => \A i \in 1..Len(Strategy.placements) :
                /\ 0 <= Strategy.placements[i].afterParagraphIndex
                /\ Strategy.placements[i].afterParagraphIndex
                       <= (IF blockCount - 1 > 0 THEN blockCount - 1 ELSE 0)

\* an accepted layout that keeps a proposed index below the range and one above it
C5_Witness ==
    /\ Done /\ result.path = "accepted"
    /\ Len(Strategy.placements) = 2 /\ Len(placements) = 2
    /\ placements[1].afterParagraphIndex < 0
    /\ placements[2].afterParagraphIndex > blockCount - 1
    /\ placements[1].imageFilename = Strategy.placements[1].imageFilename
    /\ placements[2].imageFilename = Strategy.placements[2].imageFilename

\* C6: the header of every returned strategy names an image of the input batch or
\* of the returned newImages, and no placement of the strategy references it.
C6_HeaderExistsAndIsNotPlaced ==
    Done => /\ Strategy.headerImageFilename \in ResultBatch
            /\ TimesPlaced(Strategy.headerImageFilename) = 0

\* the proposal names its own header in a placement, and the header was replaced
\* by a generated image that the batch already names
C6_Witness ==
    /\ Done /\ result.path = "accepted"
    /\ answers.generation = "generated"
    /\ Strategy.headerImageFilename = GenName
    /\ \E i \in 1..Len(placements) : placements[i].imageFilename = GenName
    /\ \E i \in 1..Len(placements) : placements[i].imageFilename = header

\* C7: a layout that is degenerate per the cluster detector after validation
\* (entries dropped, indices clamped, missing images appended) is never returned:
\* the programmatic placement is returned in its place.
C7_NoDegenerateLayoutReturned ==
    (Done /\ result.path = "accepted") =>
        ~isClustered([i \in 1..Len(Strategy.placements) |->
                         Strategy.placements[i].afterParagraphIndex], blockCount)

\* C8: when the layout request fails or its answer does not parse, the result is
\* the programmatic placement with no header override and an empty newImages.
C8_LayoutFailureFallsBack ==
    answers.layout = "error" =>
        /\ Done
        /\ Strategy = FirstImageHeaderSpread
        /\ result.newImages = <<>>
        /\ calls.suitability = 0
        /\ NoHeaderGeneration

C8_Witness ==
    /\ Done /\ answers.layout = "error"
    /\ Len(images) = 2 /\ Len(Strategy.placements) = 1 /\ blockCount >= 2

\* C9: when the proposed header names no image of the batch, the result is the
\* programmatic placement with no header override, whatever placements were
\* proposed; no suitability check and no image generation is performed.
\* For a batch of two and blockCount 4: the first image is the header and the
\* second is placed after block 1.
C9_UnknownHeaderFallsBack ==
    (answers.layout = "proposal" /\ header \notin Range(images)) =>
        /\ Done
        /\ Strategy = FirstImageHeaderSpread
        /\ result.newImages = <<>>
        /\ calls.suitability = 0
        /\ NoHeaderGeneration
        /\ (images = <<"a.png", "b.png">> /\ blockCount = 4) =>
               Strategy = [headerImageFilename |-> "a.png",
                           placements |-> <<[imageFilename |-> "b.png",
                                             afterParagraphIndex |-> 1]>>]

\* the scenario: batch of two, unknown header, four blocks, a proposal that
\* placed the second image elsewhere
C9_Witness ==
    /\ Done /\ header = Ghost
    /\ images = <<"a.png", "b.png">> /\ blockCount = 4
    /\ placements = <<[imageFilename |-> "b.png", afterParagraphIndex |-> 3]>>

\* C10: when the suitability request fails, the image counts as suitable: no
\* replacement header is generated, the proposed header is kept and the plan
\* completes.
C10_SuitabilityFailsOpen ==
    answers.suitability = "error" =>
        /\ Done
        /\ NoHeaderGeneration
        /\ finalHeaderImageFilename = header
        /\ result.newImages = <<>>
        /\ Strategy.headerImageFilename = header
        /\ result.path \in {"accepted", "clustered"}

C10_Witness ==
    /\ Done /\ answers.suitability = "error"
    /\ header # Head(images)
    /\ Strategy.headerImageFilename = header

\* C11: when the suitability gate rejects the proposed header and the replacement
\* is generated, the strategy's header is the new image's filename, newImages
\* holds exactly that image, and the rejected image has a placement.
C11_ReplacementHeaderTakesOver ==
    (Done /\ answers.suitability = "unsuitable" /\ answers.generation = "generated") =>
        /\ Strategy.headerImageFilename = GenName
        /\ result.newImages = <<GenName>>
        /\ TimesPlaced(header) >= 1

\* C12: for an empty batch planImagePlacements throws its 'no images' error at
\* once: no request is issued, nothing is answered, and no strategy (programmatic
\* or other) is returned, then or later.
C12_EmptyBatchIsRejected ==
    Len(images) = 0 =>
        /\ pc = "thrown"
        /\ result.path = "No images provided for placement planning."
        /\ result.strategy = NoStrategy /\ result.newImages = <<>>
        /\ calls = NoCalls
        /\ answers = NoAnswers
        /\ gav = GavIdle

C12_Witness == Len(images) = 0 /\ pc = "thrown" /\ blockCount > 0

\* C13: every verification request, on the first attempt and on every attempt
\* made with a refined prompt, carries the original prompt (0 in InitGen) and the
\* image of the current attempt.
C13_VerifiedAgainstOriginalPrompt ==
    gav.req.op = "verify" =>
        /\ gav.req.prompt = 0
        /\ gav.originalPrompt = 0
        /\ gav.req.image = gav.attempts

\* a verification request of a later attempt whose image came from a refined prompt
C13_Witness ==
    /\ gav.pc = "verify" /\ gav.req.op = "verify"
    /\ gav.attempts >= 2
    /\ gav.currentPrompt # gav.originalPrompt

\* C15: planImagePlacements writes neither the image batch nor the content-block
\* list (its length here) on any path; a replacement header is returned in
\* newImages and is not added to the batch.
C15_InputsAreReadOnly ==
    /\ [][images' = images /\ blockCount' = blockCount]_vars
    /\ [](Done => result.newImages = (IF answers.generation = "generated"
                                      THEN <<GenName>> ELSE <<>>))

\* a replacement header was generated for a batch that does not name it
C15_Witness ==
    /\ Done /\ answers.generation = "generated"
    /\ images = <<"a.png", "b.png">>
    /\ result.newImages = <<GenName>>
    /\ Strategy.headerImageFilename = GenName

\* the body images of the call: every image of the batch and of newImages but
\* the final header
BodyNames == (Range(images) \cup Range(newImages)) \ {finalHeaderImageFilename}

\* the body placements the detector is asked about: the proposed entries that name
\* a body image, and one entry for every body image the proposal left out
BodyPlacementCount ==
    Cardinality({i \in 1..Len(placements) : placements[i].imageFilename \in BodyNames})
    + Cardinality(BodyNames \ {placements[i].imageFilename : i \in 1..Len(placements)})

\* C18: with fewer than 2 body placements or fewer than 5 blocks no layout is
\* reported degenerate, whatever its indices: the programmatic placement is never
\* returned on grounds of clustering.
C18_DetectorOffForSmallLayouts ==
    (Done /\ (BodyPlacementCount < 2 \/ blockCount < 5)) => result.path # "clustered"

\* two images after block 0 of a four-block article: the layout is returned as
\* proposed
C18_Witness ==
    /\ Done /\ result.path = "accepted" /\ blockCount = 4
    /\ Len(Strategy.placements) = 2
    /\ Strategy.placements[1].afterParagraphIndex = 0
    /\ Strategy.placements[2].afterParagraphIndex = 0
    /\ Strategy.placements[1].imageFilename # Strategy.placements[2].imageFilename

----------------------------------------------------------------------------
(* generateArticleImages: the images of an article, generated concurrently *)

NumberOfImages == 3      \* numberOfImages: number = 3
MaxIdeas == 3            \* the service answers 1..MaxIdeas ideas

\* initialPrompt of position i (index i - 1): the style prefix and the i-th idea;
\* the ideas differ from each other and from every refined prompt
InitialPrompt(i) == MaxPrompt + i

\* `generated-image-${index + 1}.png`
GeneratedImageFilename(i) ==
    [stem |-> "generated-image-", number |-> i, extension |-> ".png"]

\* the locals of a call, without the counters that are kept for the claims about a
\* single call only
Forget(g) ==
    [g EXCEPT !.verifyCalls = 0, !.refineCalls = 0, !.okVerdicts = 0, !.badVerdicts = 0]

TaskFramesSharedAttempts(ts, i, g) ==
    [k \in DOMAIN ts |-> IF k = i THEN g ELSE [ts[k] EXCEPT !.attempts = g.attempts]]

\* attempts and currentPrompt are locals of each call of generateAndVerifyImage:
\* an answer to the call of position i changes the frame of that call
TaskFrames(ts, i, g) == [ts EXCEPT ![i] = g]

\* what the closure of a position has returned so far
Pending == [state |-> "pending", filename |-> GeneratedImageFilename(0),
            base64 |-> [prompt |-> 0, attempt |-> 0]]

\* return {filename, base64, mimeType}, or the rejection of the closure's promise
Closure(i, g) ==
    IF g.pc = "returned"
    THEN [state |-> "fulfilled", filename |-> GeneratedImageFilename(i),
          base64 |-> [prompt |-> g.originalPrompt, attempt |-> g.result]]
    ELSE [Pending EXCEPT !.state = "rejected"]

PromiseAllSettledKeepsFulfilled(a, i, g) ==
    LET results == IF g.pc \in {"returned", "thrown"}
                   THEN [a.results EXCEPT ![i] = Closure(i, g)]
                   ELSE a.results
    IN  IF a.pc = "images" /\ \A k \in DOMAIN results : results[k].state # "pending"
        THEN [a EXCEPT !.results = results, !.pc = "resolved",
                       !.value = SelectSeq(results, LAMBDA r : r.state = "fulfilled")]
        ELSE [a EXCEPT !.results = results]

\* await Promise.all(...): rejects with the first rejection, resolves with the
\* values in the order of the positions once every closure has returned
PromiseAll(a, i, g) ==
    LET results == IF g.pc \in {"returned", "thrown"}
                   THEN [a.results EXCEPT ![i] = Closure(i, g)]
                   ELSE a.results
    IN  IF a.pc # "images"
        THEN [a EXCEPT !.results = results]
        ELSE IF g.pc = "thrown"
             THEN [a EXCEPT !.results = results, !.pc = "thrown", !.error = g.error]
             ELSE IF \A k \in DOMAIN results : results[k].state = "fulfilled"
                  THEN [a EXCEPT !.results = results, !.pc = "resolved",
                                 !.value = results]
                  ELSE [a EXCEPT !.results = results]

\* the call up to its first await: the request for the image ideas is out
InitArticle ==
    /\ tasks = <<>>
    /\ article = [NoArticle EXCEPT !.pc = "ideas"]
    /\ pure = NoPure
    /\ gav = GavIdle
    /\ pc = "none"
    /\ images = <<>>
    /\ blockCount = 0
    /\ header = ""
    /\ placements = <<>>
    /\ finalHeaderImageFilename = ""
    /\ newImages = <<>>
    /\ result = NoResult
    /\ answers = NoAnswers
    /\ calls = NoCalls
    /\ workflow = NoWorkflow

\* the ideas request is rejected, its answer does not parse, or it has no ideas
IdeasFail ==
    /\ article.pc = "ideas"
    /\ \E e \in Errors \cup {"Could not generate image ideas from the transcript."} :
        article' = [article EXCEPT !.pc = "thrown", !.error = e]
    /\ UNCHANGED <<tasks, pure, gav, planVars, workflow>>

\* the ideas arrive: prompts.slice(0, numberOfImages).map(async ...) runs every
\* closure up to the first await of its generateAndVerifyImage(ai, initialPrompt, config)
IdeasRespond ==
    /\ article.pc = "ideas"
    /\ \E ideas \in 1..MaxIdeas :
        LET n == Min(ideas, NumberOfImages)
        IN  /\ tasks' = [i \in 1..n |->
                            Forget(GavStart(InitialPrompt(i), DefaultMaxAttempts))]
            /\ article' = [article EXCEPT !.pc = "images",
                                          !.results = [i \in 1..n |-> Pending]]
    /\ UNCHANGED <<pure, gav, planVars, workflow>>

\* one answer to the request that the call of one position is waiting for
TaskAnswer ==
    /\ article.pc # "ideas"
    /\ \E i \in DOMAIN tasks :
        \E g \in GavOutcomes(tasks[i]) :
            /\ tasks' = TaskFrames(tasks, i, Forget(g))
            /\ article' = PromiseAll(article, i, g)
    /\ UNCHANGED <<pure, gav, planVars, workflow>>

NextArticle == IdeasFail \/ IdeasRespond \/ TaskAnswer

SpecArticle == InitArticle /\ [][NextArticle]_vars

(* Claims about generateArticleImages *)

\* the call of position i has its own budget and its own prompts: its attempts are
\* the generateImages requests it issued itself, within the default budget, and
\* every prompt it uses is its own initial prompt or a refinement it received
OwnAttemptsAndPrompts(i) ==
    LET g == tasks[i]
    IN  /\ g.maxAttempts = DefaultMaxAttempts
        /\ g.attempts = g.synthCalls
        /\ 1 <= g.attempts /\ g.attempts <= DefaultMaxAttempts
        /\ g.originalPrompt = InitialPrompt(i)
        /\ g.currentPrompt \in Prompts \cup {InitialPrompt(i)}
        /\ g.req.op = "generateImages" => g.req.prompt = g.currentPrompt
        /\ g.req.op \in {"verify", "getImprovedPrompt"} =>
               g.req.original = InitialPrompt(i)

\* the value the closure of position i returned is named after position i and holds
\* the image that the call of position i returned
OwnResult(i) ==
    article.results[i].state = "fulfilled" =>
        /\ tasks[i].pc = "returned"
        /\ article.results[i].filename =
               [stem |-> "generated-image-", number |-> i, extension |-> ".png"]
        /\ article.results[i].base64 =
               [prompt |-> InitialPrompt(i), attempt |-> tasks[i].attempts]

C14_State ==
    /\ DOMAIN article.results = DOMAIN tasks
    /\ \A i \in DOMAIN tasks : OwnAttemptsAndPrompts(i) /\ OwnResult(i)
    /\ article.pc = "resolved" =>
           /\ article.value = article.results
           /\ \A i \in DOMAIN tasks : article.results[i].state = "fulfilled"

\* an answer to one call leaves the frame of every other call as it was
C14_Step ==
    \A i \in DOMAIN tasks :
        tasks'[i] # tasks[i] => \A j \in DOMAIN tasks \ {i} : tasks'[j] = tasks[j]

\* C14: in generateArticleImages every image's generate / verify / retry sequence
\* has its own attempt counter and current prompt; under every interleaving the
\* failures and refinements of one image change neither the attempts nor the
\* prompts of another, and every result carries the filename of its own position.
C14_ImagesAreIndependent == [](C14_State) /\ [][C14_Step]_vars

\* three images resolved after 3, 1 and 2 attempts
C14_Witness ==
    /\ article.pc = "resolved" /\ Len(tasks) = 3
    /\ tasks[1].attempts = 3 /\ tasks[1].currentPrompt \in Prompts
    /\ tasks[2].attempts = 1
    /\ tasks[3].attempts = 2
    /\ article.value[2].filename.number = 2

----------------------------------------------------------------------------
(* isClustered on its own: every list of indices, every number of blocks *)

PureMaxPlacements == 4   \* longest list of indices given to isClustered
PureMaxBlocks == 8       \* largest contentBlocks.length given to a pure function

\* indices = bodyPlacements.map(p => p.afterParagraphIndex): integers as proposed,
\* not yet clamped
IndexLists(blocks) ==
    UNION {[1..n -> ProposedIndices(blocks)] : n \in 0..PureMaxPlacements}

InitClustered ==
    /\ \E b \in 0..PureMaxBlocks :
        \E s \in IndexLists(b) :
            pure = [fn |-> "isClustered", indices |-> s, blocks |-> b,
                    state |-> "called", value |-> FALSE]
    /\ tasks = <<>> /\ article = NoArticle
    /\ gav = GavIdle
    /\ pc = "none"
    /\ images = <<>>
    /\ blockCount = 0
    /\ header = ""
    /\ placements = <<>>
    /\ finalHeaderImageFilename = ""
    /\ newImages = <<>>
    /\ result = NoResult
    /\ answers = NoAnswers
    /\ calls = NoCalls
    /\ workflow = NoWorkflow

\* the call returns
ClusteredReturns ==
    /\ pure.fn = "isClustered" /\ pure.state = "called"
    /\ pure' = [pure EXCEPT !.state = "returned",
                            !.value = isClustered(pure.indices, pure.blocks)]
    /\ UNCHANGED <<tasks, article, gav, planVars, workflow>>

NextClustered == ClusteredReturns

SpecClustered == InitClustered /\ [][NextClustered]_vars

(* Claims about isClustered *)

Returned == pure.state = "returned"

IndexSet == {pure.indices[i] : i \in 1..Len(pure.indices)}

\* the detector is in force: at least 2 placements and at least 5 blocks
InForce == Len(pure.indices) >= 2 /\ pure.blocks >= 5

\* C16, as claimed: in force, a layout whose largest index is below
\* 0.25 * blockCount is reported degenerate.
C16_BelowQuarterIsDegenerate ==
    (Returned /\ InForce /\ \A i \in IndexSet : 4 * i < pure.blocks) => pure.value = TRUE

\* C16, amended: in force, a layout whose largest index is below
\* floor(0.25 * blockCount), that is 4 * (index + 1) <= blockCount for each index,
\* is reported degenerate.
C16_BelowFlooredQuarterIsDegenerate ==
    (Returned /\ InForce /\ \A i \in IndexSet : 4 * (i + 1) <= pure.blocks) =>
        pure.value = TRUE

\* two placements on different blocks of the first quarter of 8 blocks
C16_Witness ==
    Returned /\ pure.blocks = 8 /\ pure.indices = <<1, 0>> /\ pure.value = TRUE

\* C17: in force, a layout that uses at most half as many distinct indices as it
\* has placements is reported degenerate.
C17_SharedIndicesAreDegenerate ==
    (Returned /\ InForce /\ 2 * Cardinality(IndexSet) <= Len(pure.indices)) =>
        pure.value = TRUE

\* four placements on two blocks at the end of the article
C17_Witness ==
    /\ Returned /\ pure.blocks = 8 /\ pure.indices = <<7, 3, 7, 3>>
    /\ pure.value = TRUE

\* the indices are 0, 2, 4, ... in some order, each once, up to the last block or
\* the one before it
EveryOtherBlock ==
    /\ IndexSet = {2 * (k - 1) : k \in 1..Len(pure.indices)}
    /\ 2 * (Len(pure.indices) - 1) \in {pure.blocks - 2, pure.blocks - 1}

\* C19: with at least 2 placements and at least 5 blocks, a layout with every
\* index 0 is reported degenerate; with at least 5 blocks, the layout 0, 2, 4, ...
\* over the whole range of blocks is reported not degenerate.
C19_AllZeroVersusSpread ==
    Returned =>
        /\ (InForce /\ IndexSet = {0}) => pure.value = TRUE
        /\ (pure.blocks >= 5 /\ EveryOtherBlock) => pure.value = FALSE

C19_Witness ==
    /\ Returned /\ pure.blocks = 8 /\ pure.indices = <<0, 2, 4, 6>>
    /\ pure.value = FALSE

----------------------------------------------------------------------------
(* getProgrammaticPlacement on its own *)

PureMaxImages == 9       \* largest batch given to getProgrammaticPlacement

\* batches of distinct filenames, the empty batch included
PureBatches == {SubSeq(FileNames, 1, n) : n \in 0..PureMaxImages}

\* no override, an image of the batch, or a filename the batch does not hold
Overrides(imgs) == {NoOverride, Ghost} \cup Range(imgs)

InitPlacement ==
    /\ \E imgs \in PureBatches :
        \E b \in 0..PureMaxBlocks :
            \E o \in Overrides(imgs) :
                pure = [fn |-> "getProgrammaticPlacement", images |-> imgs,
                        blocks |-> b, override |-> o,
                        state |-> "called", value |-> NoStrategy]
    /\ tasks = <<>> /\ article = NoArticle
    /\ gav = GavIdle
    /\ pc = "none"
    /\ images = <<>>
    /\ blockCount = 0
    /\ header = ""
    /\ placements = <<>>
    /\ finalHeaderImageFilename = ""
    /\ newImages = <<>>
    /\ result = NoResult
    /\ answers = NoAnswers
    /\ calls = NoCalls
    /\ workflow = NoWorkflow

\* the call returns
PlacementReturns ==
    /\ pure.fn = "getProgrammaticPlacement" /\ pure.state = "called"
    /\ pure' = [pure EXCEPT
                   !.state = "returned",
                   !.value = getProgrammaticPlacement(pure.images, pure.blocks,
                                                      pure.override)]
    /\ UNCHANGED <<tasks, article, gav, planVars, workflow>>

NextPlacement == PlacementReturns

SpecPlacement == InitPlacement /\ [][NextPlacement]_vars

(* Claims about getProgrammaticPlacement *)

\* the header the claim names: the override if one is given, else the first image
ClaimedHeader == IF pure.override # "" THEN pure.override ELSE pure.images[1]

\* the body images in batch order
ClaimedBody == SelectSeq(pure.images, LAMBDA f : f # ClaimedHeader)

\* C20: getProgrammaticPlacement returns as header the override if one is given
\* and the first image otherwise, and one placement per body image, in batch
\* order: body image i (0-based) of M goes after
\* round((i + 1) * blockCount / (M + 1)) - 1 clamped into [0, blockCount - 1];
\* with M = 0 there are no placements.
C20_EvenSpread ==
    (Returned /\ pure.fn = "getProgrammaticPlacement" /\ Len(pure.images) > 0) =>
        /\ pure.value.headerImageFilename = ClaimedHeader
        /\ Len(pure.value.placements) = Len(ClaimedBody)
        /\ \A i \in 1..Len(ClaimedBody) :
               pure.value.placements[i] =
                   [imageFilename |-> ClaimedBody[i],
                    afterParagraphIndex |->
                        SpreadIndex(i, Len(ClaimedBody), pure.blocks)]

\* three images, the second one as header override, seven blocks: the other two
\* go after blocks 1 and 4
C20_Witness ==
    /\ Returned /\ pure.fn = "getProgrammaticPlacement"
    /\ pure.images = <<"a.png", "b.png", "c.png">>
    /\ pure.override = "b.png" /\ pure.blocks = 7
    /\ pure.value = [headerImageFilename |-> "b.png",
                     placements |-> <<[imageFilename |-> "a.png",
                                       afterParagraphIndex |-> 1],
                                      [imageFilename |-> "c.png",
                                       afterParagraphIndex |-> 4]>>]

----------------------------------------------------------------------------
(* The validation of a proposal on its own: planImagePlacements from          *)
(* allImages = [...images, ...newImages] to its return, for a batch of four   *)
(* whose first image is the accepted header                                   *)

MaxScenarioBlocks == 10  \* contentBlocks.length ranges over 5..MaxScenarioBlocks

ScenarioBatch == <<"header.png", "a.png", "b.png", "c.png">>

\* one placement for each of the three other images, in batch order
ScenarioProposals(blocks) ==
    {[i \in 1..3 |-> Placement(ScenarioBatch[i + 1], idx[i])] :
        idx \in [1..3 -> ProposedIndices(blocks)]}

InitValidation ==
    /\ \E b \in 5..MaxScenarioBlocks :
        \E proposed \in ScenarioProposals(b) :
            pure = [fn |-> "validation", images |-> ScenarioBatch, blocks |-> b,
                    final |-> "header.png", news |-> <<>>, proposed |-> proposed,
                    state |-> "called", value |-> NoResult]
    /\ tasks = <<>> /\ article = NoArticle
    /\ gav = GavIdle
    /\ pc = "none"
    /\ images = <<>>
    /\ blockCount = 0
    /\ header = ""
    /\ placements = <<>>
    /\ finalHeaderImageFilename = ""
    /\ newImages = <<>>
    /\ result = NoResult
    /\ answers = NoAnswers
    /\ calls = NoCalls
    /\ workflow = NoWorkflow

\* planImagePlacements returns
ValidationReturns ==
    /\ pure.fn = "validation" /\ pure.state = "called"
    /\ pure' = [pure EXCEPT
                   !.state = "returned",
                   !.value = PlanRest(pure.images, pure.blocks, pure.final,
                                      pure.news, pure.proposed)]
    /\ UNCHANGED <<tasks, article, gav, planVars, workflow>>

NextValidation == ValidationReturns

SpecValidation == InitValidation /\ [][NextValidation]_vars

(* Claims about the validation of a proposal *)

\* batch [header.png, a.png, b.png, c.png], header header.png accepted, the three
\* others proposed after index 0, ten blocks
Scenario ==
    /\ pure.fn = "validation" /\ Returned
    /\ pure.images = <<"header.png", "a.png", "b.png", "c.png">>
    /\ pure.final = "header.png" /\ pure.blocks = 10
    /\ pure.proposed = <<[imageFilename |-> "a.png", afterParagraphIndex |-> 0],
                         [imageFilename |-> "b.png", afterParagraphIndex |-> 0],
                         [imageFilename |-> "c.png", afterParagraphIndex |-> 0]>>

\* C21, as claimed: the scenario ends in the programmatic strategy with header
\* header.png and a.png after 1, b.png after 4, c.png after 7.
C21_ScenarioAsClaimed ==
    Scenario =>
        /\ pure.value.path = "clustered"
        /\ pure.value.strategy =
               [headerImageFilename |-> "header.png",
                placements |-> <<[imageFilename |-> "a.png", afterParagraphIndex |-> 1],
                                 [imageFilename |-> "b.png", afterParagraphIndex |-> 4],
                                 [imageFilename |-> "c.png", afterParagraphIndex |-> 7]>>]

\* C21, amended: the scenario ends in the programmatic strategy with header
\* header.png and a.png after 2, b.png after 4, c.png after 7, and no new image.
C21_ScenarioAmended ==
    Scenario =>
        /\ pure.value.path = "clustered"
        /\ pure.value.newImages = <<>>
        /\ pure.value.strategy =
               [headerImageFilename |-> "header.png",
                placements |-> <<[imageFilename |-> "a.png", afterParagraphIndex |-> 2],
                                 [imageFilename |-> "b.png", afterParagraphIndex |-> 4],
                                 [imageFilename |-> "c.png", afterParagraphIndex |-> 7]>>]

C21_Witness == Scenario /\ pure.value.path = "clustered"

\* an index clamped into [0, blocks - 1], for blocks >= 1
ClaimedClamp(i, blocks) == IF i < 0 THEN 0 ELSE IF i > blocks - 1 THEN blocks - 1 ELSE i

\* C22: in a returned AI layout every proposed placement is kept for its image; an
\* index above the range becomes blockCount - 1, an index below 0 becomes 0, an
\* index in range stays as proposed.
C22_OutOfRangeIsClamped ==
    (pure.fn = "validation" /\ Returned /\ pure.value.path = "accepted") =>
        /\ Len(pure.value.strategy.placements) = Len(pure.proposed)
        /\ \A i \in 1..Len(pure.proposed) :
               pure.value.strategy.placements[i] =
                   [imageFilename |-> pure.proposed[i].imageFilename,
                    afterParagraphIndex |->
                        ClaimedClamp(pure.proposed[i].afterParagraphIndex, pure.blocks)]

----------------------------------------------------------------------------
(* More claims about generateAndVerifyImage *)

\* the refinement request that follows a verification answer of this attempt
RefinementAfterVerdict ==
    gav.pc = "refine" /\ gav.verdict.image # 0

Mentions(text) == \E i \in 1..Len(gav.req.reason) : gav.req.reason[i] = text

C23_State ==
    RefinementAfterVerdict =>
        /\ gav.req.op = "getImprovedPrompt"
        /\ Mentions("it contained garbled, nonsensical text")
               <=> (gav.verdict.hasGarbledText = TRUE)
        /\ Mentions("it was not visually relevant") <=> (gav.verdict.isRelevant = FALSE)
        /\ gav.req.reason # <<>>

\* a verification that fails with attempts remaining is followed by a refinement
C23_Step ==
    (/\ gav.pc = "verify" /\ gav'.verdict.image # 0
     /\ ~(gav'.verdict.hasGarbledText = FALSE /\ gav'.verdict.isRelevant = TRUE)
     /\ gav.attempts < gav.maxAttempts) => gav'.pc = "refine"

\* C23: after a verification failure with attempts remaining, the reason of the
\* refinement request names exactly the axes that failed: the text issue if and
\* only if garbled text was reported, the relevance issue if and only if the image
\* was reported not relevant; the reason is never empty.
C23_ReasonNamesFailedAxes == [](C23_State) /\ [][C23_Step]_vars

\* {garbled text: true, relevant: true}: the text issue only
C23_Witness ==
    /\ RefinementAfterVerdict
    /\ gav.verdict.hasGarbledText = TRUE /\ gav.verdict.isRelevant = TRUE
    /\ gav.req.reason = <<"it contained garbled, nonsensical text">>

C24_State ==
    /\ gav.req.op = "generateImages" =>
           /\ gav.req.prompt = gav.currentPrompt
           /\ gav.attempts = 1 => gav.req.prompt = 0
    /\ gav.req.op = "getImprovedPrompt" =>
           /\ gav.req.original = 0
           /\ gav.req.prompt = gav.currentPrompt
           /\ gav.req.reason # <<>>

\* synthesis, then verification, then refinement, then the next synthesis; the
\* prompt of an attempt stays until a refinement answers; a refinement request
\* carries the reason why the synthesis or the verification of its attempt failed
C24_Step ==
    /\ gav.pc \in {"synth", "verify"} => gav'.currentPrompt = gav.currentPrompt
    /\ gav'.pc = "verify" => gav.pc = "synth"
    /\ gav'.pc = "synth" =>
           /\ gav.pc \in {"refine", "refineCatch"}
           /\ gav'.attempts = gav.attempts + 1
           /\ gav'.req.prompt \in Prompts
    /\ gav'.pc \in {"refine", "refineCatch"} =>
           /\ gav.pc \in {"synth", "verify"}
           /\ gav'.attempts = gav.attempts
    /\ (gav'.pc = "refine" /\ gav.pc = "synth") =>
           gav'.req.reason = <<"The model failed to generate an image">>
    /\ gav'.pc = "refineCatch" =>
           \E e \in Errors : gav'.req.reason = <<"The API returned an error", e>>

\* C24: attempt 1 synthesizes from the original prompt and every later attempt
\* from the prompt the most recent refinement returned; every refinement request
\* carries the original prompt, the prompt of the attempt that just failed and
\* the failure reason of that attempt; the steps of one call follow each other
\* as synthesis, verification, refinement, next synthesis.
C24_PromptSequencing == [](C24_State) /\ [][C24_Step]_vars

\* the reaction to a service error of generateImages or of the verification
C25_Reaction ==
    gav.pc \in {"synth", "verify"} =>
        /\ (gav'.pc = "thrown" /\ gav'.error \in Errors) =>
               gav.attempts = gav.maxAttempts
        /\ gav'.pc = "refineCatch" =>
               /\ gav.attempts < gav.maxAttempts
               /\ gav'.req.op = "getImprovedPrompt"
               /\ gav'.req.reason = <<"The API returned an error", "service error">>
               /\ gav'.req.original = 0 /\ gav'.req.prompt = gav.currentPrompt

\* after the refinement request of the catch block the call makes its next attempt
C25_NextAttempt ==
    gav.pc = "refineCatch" => gav'.pc = "synth" /\ gav'.attempts = gav.attempts + 1

\* C25: a service error of the synthesis or of the verification while attempts
\* remain does not end the call: a refined prompt is requested with a reason that
\* holds the error text, and another attempt is made; the error is raised to the
\* caller only on the last attempt.
C25_ServiceErrorIsRetried == [][C25_Reaction /\ C25_NextAttempt]_vars

\* the reaction to an answer of generateImages that holds no image
C26_Reaction ==
    gav.pc = "synth" =>
        /\ gav'.pc = "refine" =>
               /\ gav.attempts < gav.maxAttempts
               /\ gav'.verifyCalls = gav.verifyCalls
               /\ gav'.req.op = "getImprovedPrompt"
               /\ gav'.req.reason = <<"The model failed to generate an image">>
               /\ gav'.req.original = 0 /\ gav'.req.prompt = gav.currentPrompt
        /\ (gav'.pc = "thrown" /\ gav'.error = "Failed to generate image") =>
               /\ gav.attempts = gav.maxAttempts
               /\ gav'.refineCalls = gav.refineCalls
               /\ gav'.verifyCalls = gav.verifyCalls

\* after the refinement request with the 'no output' reason the call retries
C26_Retry ==
    (gav.pc = "refine" /\ gav.req.reason = <<"The model failed to generate an image">>) =>
        gav'.pc = "synth" /\ gav'.attempts = gav.attempts + 1

\* C26: when synthesis returns no image while attempts remain, the call skips the
\* verification, requests a refined prompt with the fixed 'no output' reason and
\* retries; when it returns no image on the last attempt, the call fails without
\* a refinement request.
C26_NoImageIsRetried == [][C26_Reaction /\ C26_Retry]_vars

----------------------------------------------------------------------------
(* More claims about planImagePlacements *)

\* the call is waiting for an answer, or has returned a strategy with a header
C27_State ==
    Len(images) > 0 =>
        /\ pc \in {"layout", "suitability", "idea", "generation", "generated",
                   "generationFailed", "done"}
        /\ pc = "generation" => gav.pc \in {"synth", "verify", "refine", "refineCatch"}
        /\ pc # "generation" => gav = GavIdle
        /\ Done => /\ Strategy.headerImageFilename # ""
                   /\ result.path \in {"failure", "unresolved", "clustered", "accepted"}
        /\ (Done /\ answers.generation = "failed") =>
               /\ Strategy.headerImageFilename = header
               /\ result.newImages = <<>>
               /\ result.path \in {"clustered", "accepted"}

\* C27: for a non-empty batch planImagePlacements never raises, whatever the
\* layout, suitability, prompt, synthesis, verification and refinement requests
\* answer: it waits for an answer or has returned a strategy; when the generation
\* of a replacement header fails, the proposed header is kept and newImages is
\* empty.
C27_NeverRaises == C27_State

\* the replacement of a header other than the first image failed because the
\* retry budget ran out
C27_Witness ==
    /\ Done /\ answers.generation = "failed" /\ answers.idea = "prompt"
    /\ header # Head(images)
    /\ Strategy.headerImageFilename = header

----------------------------------------------------------------------------
(* More claims about getProgrammaticPlacement *)

\* the indices of the returned placements, in the order returned
ReturnedIndices ==
    [i \in 1..Len(pure.value.placements) |->
        pure.value.placements[i].afterParagraphIndex]

\* C29: for every batch with at least 2 body images and every blockCount >= 5
\* the placements getProgrammaticPlacement returns are not degenerate per the
\* cluster detector.
C29_FallbackIsNotClustered ==
    (/\ Returned /\ pure.fn = "getProgrammaticPlacement"
     /\ Len(pure.value.placements) >= 2 /\ pure.blocks >= 5) =>
        ~isClustered(ReturnedIndices, pure.blocks)

\* where f stands in the batch
PositionIn(imgs, f) == CHOOSE i \in 1..Len(imgs) : imgs[i] = f

\* C30: the indices getProgrammaticPlacement returns are non-decreasing in batch
\* order, for every blockCount >= 0 and every batch: a body image that comes
\* later in the batch is never placed after a smaller index than an earlier one.
C30_IndicesFollowBatchOrder ==
    (Returned /\ pure.fn = "getProgrammaticPlacement") =>
        \A p, q \in Range(pure.value.placements) :
            PositionIn(pure.images, p.imageFilename)
                < PositionIn(pure.images, q.imageFilename)
            => p.afterParagraphIndex <= q.afterParagraphIndex

\* three images and eight blocks: the second image goes after block 2 and the
\* third after block 4
C30_Witness ==
    /\ Returned /\ pure.fn = "getProgrammaticPlacement"
    /\ pure.images = <<"a.png", "b.png", "c.png">> /\ pure.override = NoOverride
    /\ pure.blocks = 8
    /\ ReturnedIndices = <<2, 4>>

----------------------------------------------------------------------------
(* runGenerationWorkflow from the preparation of the images on: the title and the
   content of the article are there *)

\* a batch of user images
UserImages == <<"user-image.jpg">>

\* img.filename.replace(/\.[^/.]+$/, ".webp")
WebPFilename(f) == f.stem \o ToString(f.number) \o ".webp"

\* { headerImageFilename: '', placements: [] }
TextOnlyStrategy == [headerImageFilename |-> "", placements |-> <<>>]

\* if (imagesForArticle.length > 0) { ... await planImagePlacements(...) }
\* else { assembleArticleHtml(title, markdownContent, [], {...}); return }
PlanOrAssemble(w) ==
    IF Len(w.imagesForArticle) > 0
    THEN [w EXCEPT !.pc = "planning", !.planCalls = w.planCalls + 1]
    ELSE [w EXCEPT !.pc = "returned",
                   !.html = [images |-> <<>>, strategy |-> TextOnlyStrategy]]

\* what planImagePlacements resolves to: the even spread after a failed layout
\* request, and the even spread around a generated header that replaced the
\* proposed one
PlanResults(imgs) ==
    {[strategy |-> getProgrammaticPlacement(imgs, b, NoOverride), newImages |-> <<>>] :
        b \in 0..MaxBlocks}
    \cup {[strategy |-> getProgrammaticPlacement(imgs \o <<GenName>>, b, GenName),
           newImages |-> <<GenName>>] : b \in 0..MaxBlocks}

\* with user images the call goes on to the layout; without, the call of
\* generateArticleImages is out and waits for its image ideas
InitWorkflow ==
    /\ \E u \in {<<>>, UserImages} :
        /\ workflow = IF Len(u) > 0
                      THEN PlanOrAssemble([NoWorkflow EXCEPT !.userImages = u,
                                                             !.imagesForArticle = u])
                      ELSE [NoWorkflow EXCEPT !.pc = "generating"]
        /\ article = IF Len(u) > 0 THEN NoArticle ELSE [NoArticle EXCEPT !.pc = "ideas"]
    /\ tasks = <<>>
    /\ pure = NoPure
    /\ gav = GavIdle
    /\ pc = "none"
    /\ images = <<>>
    /\ blockCount = 0
    /\ header = ""
    /\ placements = <<>>
    /\ finalHeaderImageFilename = ""
    /\ newImages = <<>>
    /\ result = NoResult
    /\ answers = NoAnswers
    /\ calls = NoCalls

\* generateArticleImages rejects: catch (genErr) logs, imagesForArticle stays empty
GenerationRejected ==
    /\ workflow.pc = "generating" /\ article.pc = "thrown"
    /\ workflow' = PlanOrAssemble(workflow)
    /\ UNCHANGED <<tasks, article, pure, gav, planVars>>

\* generateArticleImages resolves: every image is handed to convertImageToWebP
GenerationResolved ==
    /\ workflow.pc = "generating" /\ article.pc = "resolved"
    /\ workflow' = [workflow EXCEPT !.pc = "converting"]
    /\ UNCHANGED <<tasks, article, pure, gav, planVars>>

\* every conversion resolves: the images get their .webp filenames
ConversionResolved ==
    /\ workflow.pc = "converting"
    /\ workflow' =
           PlanOrAssemble([workflow EXCEPT
               !.imagesForArticle =
                   [i \in DOMAIN article.value |->
                       WebPFilename(article.value[i].filename)]])
    /\ UNCHANGED <<tasks, article, pure, gav, planVars>>

\* a conversion rejects: the same catch (genErr)
ConversionRejected ==
    /\ workflow.pc = "converting"
    /\ workflow' = PlanOrAssemble(workflow)
    /\ UNCHANGED <<tasks, article, pure, gav, planVars>>

\* planImagePlacements resolves: the new images are added and the article is
\* assembled
PlanningResolved ==
    /\ workflow.pc = "planning"
    /\ \E r \in PlanResults(workflow.imagesForArticle) :
        workflow' = [workflow EXCEPT
                        !.pc = "returned",
                        !.imagesForArticle = workflow.imagesForArticle \o r.newImages,
                        !.html = [images |-> workflow.imagesForArticle \o r.newImages,
                                  strategy |-> r.strategy]]
    /\ UNCHANGED <<tasks, article, pure, gav, planVars>>

NextWorkflow ==
    \/ IdeasFail
    \/ IdeasRespond
    \/ TaskAnswer
    \/ GenerationRejected
    \/ GenerationResolved
    \/ ConversionResolved
    \/ ConversionRejected
    \/ PlanningResolved

SpecWorkflow == InitWorkflow /\ [][NextWorkflow]_vars

(* Claims about runGenerationWorkflow *)

C28_State ==
    workflow.userImages = <<>> =>
        /\ workflow.pc \in {"generating", "converting", "planning", "returned"}
        /\ (\E i \in DOMAIN tasks : tasks[i].pc = "thrown") =>
               /\ article.pc = "thrown"
               /\ workflow.pc \in {"generating", "returned"}
        /\ article.pc = "thrown" =>
               /\ workflow.imagesForArticle = <<>>
               /\ workflow.planCalls = 0
               /\ workflow.pc = "returned" =>
                      workflow.html = [images |-> <<>>, strategy |-> TextOnlyStrategy]
        /\ workflow.imagesForArticle # <<>> =>
               /\ article.pc = "resolved"
               /\ \A i \in DOMAIN tasks : tasks[i].pc = "returned"
               /\ Len(workflow.imagesForArticle) \in {Len(tasks), Len(tasks) + 1}

\* after the rejection the workflow returns, and that is all it does
C28_Step ==
    (workflow.userImages = <<>> /\ article.pc = "thrown" /\ workflow' # workflow) =>
        workflow'.pc = "returned"

\* C28: in runGenerationWorkflow with no user images a terminal failure of image
\* generation does not fail the workflow: generateArticleImages fails as a whole
\* as soon as one image exhausts its retry budget, no partial set of images is
\* used, no layout-planning call is made, and the article is assembled text-only
\* with an empty placement strategy.
C28_FailureGivesTextOnly == [](C28_State) /\ [][C28_Step]_vars

\* the second of three images ran out of attempts while the first was there
\* already: the article has been assembled without images
C28_Witness ==
    /\ workflow.userImages = <<>> /\ workflow.pc = "returned"
    /\ workflow.html = [images |-> <<>>, strategy |-> TextOnlyStrategy]
    /\ workflow.planCalls = 0
    /\ Len(tasks) = 3
    /\ article.pc = "thrown" /\ article.error = "Failed to generate a valid image"
    /\ tasks[2].pc = "thrown" /\ tasks[2].attempts = DefaultMaxAttempts
    /\ article.results[1].state = "fulfilled"

====
